---- MODULE Spec2Model ----
(***************************************************************************)
(* Model of the log-analyzer core (src/index.js): detectFormat, the line   *)
(* parsers, parseLogFile, filterByStatus, aggregateByField,                *)
(* calculateTimeStats and generateSummary.                                 *)
(*                                                                         *)
(* Text is modelled character by character on TLA+ strings, so the regular *)
(* expressions, String.split, String.trim, parseInt and JSON.parse are     *)
(* computed as the JavaScript engine computes them.  JavaScript values are *)
(* tagged records, and a plain object `{}` is an ordered list of own       *)
(* properties that inherits from Object.prototype.                         *)
(***************************************************************************)
EXTENDS Integers, Sequences, FiniteSets, TLC

(***************************************************************************)
(* Characters and strings                                                  *)
(***************************************************************************)
Char(s, i) == IF i >= 1 /\ i <= Len(s) THEN SubSeq(s, i, i) ELSE ""

From(s, i) == IF i > Len(s) THEN "" ELSE SubSeq(s, i, Len(s))

\* The text w occurs in s at index i.
StartsWith(s, i, w) ==
  i + Len(w) - 1 <= Len(s) /\ SubSeq(s, i, i + Len(w) - 1) = w

\* The white space of String.prototype.trim and of the class \s that can
\* occur inside one line of the inputs.
WhiteSpace == {" ", "\t", "\r"}

Digits == {"0", "1", "2", "3", "4", "5", "6", "7", "8", "9"}

\* Line terminators, which `.` does not match.
LineTerminators == {"\n", "\r"}

\* Membership of one character in a regular-expression class:
\* "S" is \S, "d" is \d, "nb" is [^\]], "dot" is `.`; and of JSON's grammar,
\* "ws" is white space and "str" a character that stands for itself inside
\* a string (no quote, backslash or control character).
InClass(cls, c) ==
  CASE cls = "S"   -> c \notin WhiteSpace /\ c # "\n"
    [] cls = "d"   -> c \in Digits
    [] cls = "nb"  -> c # "]"
    [] cls = "dot" -> c \notin LineTerminators
    [] cls = "ws"  -> c \in {" ", "\t", "\n", "\r"}
    [] cls = "str" -> c \notin {"\"", "\\", "\t", "\n", "\r"}

\* First index >= i of s whose character is not in the class (Len(s)+1 when
\* the run reaches the end): where a greedy cls+ that starts at i stops.
RunEnd(cls, s, i) ==
  CHOOSE j \in i..(Len(s) + 1) :
    /\ j = Len(s) + 1 \/ ~InClass(cls, Char(s, j))
    /\ \A k \in i..(j - 1) : InClass(cls, Char(s, k))

\* str.trim() is truthy: some character is not white space.
TrimTruthy(l) ==
  \E i \in 1..Len(l) : Char(l, i) \notin WhiteSpace /\ Char(l, i) # "\n"

\* First index >= i of s holding character c, or 0.
IndexOf(s, c, i) ==
  IF \E j \in i..Len(s) : Char(s, j) = c
  THEN CHOOSE j \in i..Len(s) :
         Char(s, j) = c /\ \A k \in i..(j - 1) : Char(s, k) # c
  ELSE 0

\* content.split('\n')
RECURSIVE Split(_)
Split(s) ==
  LET k == IndexOf(s, "\n", 1)
  IN  IF k = 0 THEN <<s>>
      ELSE <<SubSeq(s, 1, k - 1)>> \o Split(From(s, k + 1))

\* array.filter(pred) for the predicate l => l.trim()
RECURSIVE FilterNonBlank(_)
FilterNonBlank(ls) ==
  IF ls = <<>> THEN <<>>
  ELSE IF TrimTruthy(Head(ls)) THEN <<Head(ls)>> \o FilterNonBlank(Tail(ls))
  ELSE FilterNonBlank(Tail(ls))

\* content.split('\n') without the filter for blank lines.
AllLines(content) == Split(content)

\* content.split('\n').filter(l => l.trim())
NonBlankLines(content) == FilterNonBlank(Split(content))

DigitVal(c) ==
  CASE c = "0" -> 0 [] c = "1" -> 1 [] c = "2" -> 2 [] c = "3" -> 3
    [] c = "4" -> 4 [] c = "5" -> 5 [] c = "6" -> 6 [] c = "7" -> 7
    [] c = "8" -> 8 [] c = "9" -> 9

\* parseInt of a run of decimal digits (what \d{3} and \d+ capture).
RECURSIVE ParseIntFrom(_, _, _)
ParseIntFrom(s, i, acc) ==
  IF i > Len(s) THEN acc
  ELSE ParseIntFrom(s, i + 1, acc * 10 + DigitVal(Char(s, i)))

parseInt(s) == ParseIntFrom(s, 1, 0)

(***************************************************************************)
(* JavaScript values                                                       *)
(***************************************************************************)
V(t, n, s) == [t |-> t, n |-> n, s |-> s]

Undefined == V("undefined", 0, "")
Null      == V("null", 0, "")
Num(n)    == V("number", n, "")
Str(s)    == V("string", 0, s)
Bool(b)   == V("boolean", IF b THEN 1 ELSE 0, "")
\* A built-in function object, named by the property that holds it.
Fn(name)  == V("function", 0, name)
\* The object Object.prototype itself (the value of {}.__proto__).
ObjectPrototype == V("prototype", 0, "")

\* An entry or a mapping: a primitive, or an object with its own properties
\* in creation order.
Box(v) == [t |-> v.t, n |-> v.n, s |-> v.s, keys |-> <<>>, vals |-> <<>>]
EmptyObject == [t |-> "object", n |-> 0, s |-> "", keys |-> <<>>, vals |-> <<>>]
Prim(o) == V(o.t, o.n, o.s)

\* The function-valued properties every object inherits from
\* Object.prototype.
ObjectPrototypeFunctions ==
  {"constructor", "hasOwnProperty", "isPrototypeOf", "propertyIsEnumerable",
   "toLocaleString", "toString", "valueOf", "__defineGetter__",
   "__defineSetter__", "__lookupGetter__", "__lookupSetter__"}

\* ToBoolean
Truthy(v) ==
  CASE v.t \in {"undefined", "null"} -> FALSE
    [] v.t \in {"number", "boolean"} -> v.n # 0
    [] v.t = "string" -> v.s # ""
    [] OTHER -> TRUE

\* Number::toString for an integer.
NumToString(n) == ToString(n)

\* ToString (String(v), and the conversion of a property key)
JSToString(v) ==
  CASE v.t = "undefined" -> "undefined"
    [] v.t = "null" -> "null"
    [] v.t = "number" -> NumToString(v.n)
    [] v.t = "boolean" -> IF v.n = 1 THEN "true" ELSE "false"
    [] v.t = "string" -> v.s
    [] v.t = "function" -> "function " \o v.s \o "() { [native code] }"
    [] OTHER -> "[object Object]"

KeyIndex(o, k) ==
  IF \E i \in 1..Len(o.keys) : o.keys[i] = k
  THEN CHOOSE i \in 1..Len(o.keys) : o.keys[i] = k
  ELSE 0

HasOwn(o, k) == KeyIndex(o, k) # 0

\* o[k] for an object or a boxed primitive: an own property, or what the
\* prototype chain gives (Object.prototype; for a string also length).
Get(o, k) ==
  IF HasOwn(o, k) THEN o.vals[KeyIndex(o, k)]
  ELSE IF o.t = "string" /\ k = "length" THEN Num(Len(o.s))
  ELSE IF k \in ObjectPrototypeFunctions THEN Fn(k)
  ELSE IF k = "__proto__" THEN ObjectPrototype
  ELSE Undefined

\* CreateDataProperty: what an object literal and JSON.parse do.
DefineOwn(o, k, v) ==
  IF HasOwn(o, k)
  THEN [o EXCEPT !.vals[KeyIndex(o, k)] = v]
  ELSE [o EXCEPT !.keys = Append(@, k), !.vals = Append(@, v)]

\* o[k] = v on a plain object.  The inherited __proto__ is an accessor whose
\* setter ignores a value that is neither an object nor null.
Set(o, k, v) ==
  IF k = "__proto__" /\ ~HasOwn(o, k) THEN o
  ELSE DefineOwn(o, k, v)

(***************************************************************************)
(* The combined-log regular expressions                                    *)
(*                                                                         *)
(* Both expressions are a sequence of literal characters and of captured   *)
(* repetitions of a character class, anchored by ^ and $.  Of the ways to  *)
(* split the line among the items, the backtracking engine finds first the *)
(* one that, at the first repetition where two ways differ, has the longer *)
(* run if that repetition is greedy and the shorter if it is lazy.         *)
(***************************************************************************)
Lit(c)    == [k |-> "lit", c |-> c]      \* literal text
Plus(cls) == [k |-> "plus", c |-> cls]     \* (cls+)
Rep3(cls) == [k |-> "rep3", c |-> cls]     \* (cls{3})
Lazy(cls) == [k |-> "lazy", c |-> cls]     \* (cls*?)

\*  ^(\S+) (\S+) (\S+) \[([^\]]+)\] "(\S+) (\S+) (\S+)" (\d{3}) (\d+)$
apachePattern ==
  << Plus("S"), Lit(" "), Plus("S"), Lit(" "), Plus("S"), Lit(" ["),
     Plus("nb"), Lit("] \""),
     Plus("S"), Lit(" "), Plus("S"), Lit(" "), Plus("S"), Lit("\" "),
     Rep3("d"), Lit(" "), Plus("d") >>

\*  the same, followed by  "(.*?)" "(.*?)"$
nginxPattern ==
  apachePattern \o
  << Lit(" \""), Lazy("dot"), Lit("\" \""), Lazy("dot"), Lit("\"") >>

MatchFail == [ok |-> FALSE, g |-> <<>>]

\* The partial matches after one more item: each is the index i of the
\* next character to match and the groups g captured so far.
Step(line, partials, item) ==
  CASE item.k = "lit" ->
         { [i |-> q.i + Len(item.c), g |-> q.g] :
             q \in {r \in partials : StartsWith(line, r.i, item.c)} }
    [] item.k = "rep3" ->
         { [i |-> q.i + 3, g |-> Append(q.g, SubSeq(line, q.i, q.i + 2))] :
             q \in {r \in partials : RunEnd(item.c, line, r.i) >= r.i + 3} }
    [] item.k = "plus" ->
         UNION { { [i |-> j, g |-> Append(q.g, SubSeq(line, q.i, j - 1))] :
                     j \in (q.i + 1)..RunEnd(item.c, line, q.i) } :
                 q \in partials }
    [] item.k = "lazy" ->
         UNION { { [i |-> j, g |-> Append(q.g, SubSeq(line, q.i, j - 1))] :
                     j \in q.i..RunEnd(item.c, line, q.i) } :
                 q \in partials }

\* The partial matches of the first n items of pat, from the start (^).
RECURSIVE Partials(_, _, _)
Partials(pat, n, line) ==
  IF n = 0 THEN { [i |-> 1, g |-> <<>>] }
  ELSE Step(line, Partials(pat, n - 1, line), pat[n])

IsRepetition(item) == item.k # "lit"

\* The engine tries match a before match b.
TriedBefore(a, b, reps) ==
  \E k \in 1..Len(reps) :
    /\ \A m \in 1..(k - 1) : Len(a.g[m]) = Len(b.g[m])
    /\ IF reps[k].k = "lazy" THEN Len(a.g[k]) < Len(b.g[k])
       ELSE Len(a.g[k]) > Len(b.g[k])

\* The first of the complete matches `found` that the engine reaches.
FirstMatch(found, reps) ==
  IF found = {} THEN MatchFail
  ELSE [ok |-> TRUE,
        g  |-> (CHOOSE a \in found :
                  \A b \in found \ {a} : TriedBefore(a, b, reps)).g]

\* line.match(pat): the complete matches are those that end at the end of
\* the line ($).
Match(pat, line) ==
  FirstMatch({ q \in Partials(pat, Len(pat), line) : q.i = Len(line) + 1 },
             SelectSeq(pat, IsRepetition))

\* line.match(regex) of parseNginxLine; nginxPattern.test(line) is its ok.
NginxMatch(line) == Match(nginxPattern, line)

\* line.match(regex) of parseApacheLine; apachePattern.test(line) is its ok.
ApacheMatch(line) == Match(apachePattern, line)

(***************************************************************************)
(* Line parsers                                                            *)
(***************************************************************************)
\* An object literal with distinct keys: the properties in the order
\* written.
ObjectLiteral(ks, vs) == [EmptyObject EXCEPT !.keys = ks, !.vals = vs]

\* match[i] || '-'
OrDash(s) == IF Truthy(Str(s)) THEN Str(s) ELSE Str("-")

\* The result null of a parser that does not match.
NoMatch == Box(Null)

\* The record parseNginxLine builds from the match m.
NginxRecord(m) ==
  IF ~m.ok THEN NoMatch
  ELSE ObjectLiteral(
         << "ip", "identity", "user", "timestamp", "method", "path",
            "protocol", "status", "size", "referer", "userAgent" >>,
         << Str(m.g[1]), Str(m.g[2]), Str(m.g[3]), Str(m.g[4]),
            Str(m.g[5]), Str(m.g[6]), Str(m.g[7]),
            Num(parseInt(m.g[8])), Num(parseInt(m.g[9])),
            OrDash(m.g[10]), OrDash(m.g[11]) >>)

parseNginxLine(line) == NginxRecord(NginxMatch(line))

\* The record parseApacheLine builds from the match m.
ApacheRecord(m) ==
  IF ~m.ok THEN NoMatch
  ELSE ObjectLiteral(
         << "ip", "identity", "user", "timestamp", "method", "path",
            "protocol", "status", "size" >>,
         << Str(m.g[1]), Str(m.g[2]), Str(m.g[3]), Str(m.g[4]),
            Str(m.g[5]), Str(m.g[6]), Str(m.g[7]),
            Num(parseInt(m.g[8])), Num(parseInt(m.g[9])) >>)

parseApacheLine(line) == ApacheRecord(ApacheMatch(line))

\* { raw: line }
TextEntry(line) == ObjectLiteral(<< "raw" >>, << Str(line) >>)

(***************************************************************************)
(* JSON.parse                                                              *)
(*                                                                         *)
(* The JSON grammar for the documents the inputs hold: the literals,       *)
(* integers, strings without escape sequences, and objects whose members   *)
(* are such scalars.  A text that starts as one of these and goes on with  *)
(* anything else (an address 192.168.1.1, a bracketed date) is a syntax    *)
(* error, as it is for the full grammar.                                   *)
(***************************************************************************)
SkipWs(s, i) == RunEnd("ws", s, i)

JsonFail == [ok |-> FALSE, v |-> Box(Undefined), end |-> 0]

\* A JSON string starting at the quote s[i].
JsonString(s, i) ==
  LET j == RunEnd("str", s, i + 1)
  IN  IF Char(s, i) = "\"" /\ Char(s, j) = "\""
      THEN [ok |-> TRUE, v |-> Box(Str(SubSeq(s, i + 1, j - 1))), end |-> j + 1]
      ELSE JsonFail

\* A JSON number starting at s[i]: -? (0 | [1-9][0-9]*), not followed by a
\* fraction or an exponent.
JsonNumber(s, i) ==
  LET neg == Char(s, i) = "-"
      a   == IF neg THEN i + 1 ELSE i
      e   == IF Char(s, a) = "0" THEN a + 1 ELSE RunEnd("d", s, a)
      n   == parseInt(SubSeq(s, a, e - 1))
  IN  IF e > a /\ Char(s, e) \notin {".", "e", "E"}
      THEN [ok |-> TRUE, v |-> Box(Num(IF neg THEN 0 - n ELSE n)), end |-> e]
      ELSE JsonFail

JsonScalar(s, i) ==
  CASE StartsWith(s, i, "null")  -> [ok |-> TRUE, v |-> Box(Null), end |-> i + Len("null")]
    [] StartsWith(s, i, "true")  -> [ok |-> TRUE, v |-> Box(Bool(TRUE)), end |-> i + Len("true")]
    [] StartsWith(s, i, "false") -> [ok |-> TRUE, v |-> Box(Bool(FALSE)), end |-> i + Len("false")]
    [] Char(s, i) = "\""         -> JsonString(s, i)
    [] OTHER                     -> JsonNumber(s, i)

\* The members of an object from s[i] on, added to obj:  "key" : scalar
\* then a comma and more members, or the closing brace.
RECURSIVE JsonMembers(_, _, _)
JsonMembers(s, i, obj) ==
  LET k  == JsonString(s, i)
      c  == SkipWs(s, k.end)
      v  == JsonScalar(s, SkipWs(s, c + 1))
      d  == SkipWs(s, v.end)
      o2 == DefineOwn(obj, k.v.s, Prim(v.v))
  IN  IF ~(k.ok /\ Char(s, c) = ":" /\ v.ok) THEN JsonFail
      ELSE IF Char(s, d) = "}" THEN [ok |-> TRUE, v |-> o2, end |-> d + 1]
      ELSE IF Char(s, d) = "," THEN JsonMembers(s, SkipWs(s, d + 1), o2)
      ELSE JsonFail

JsonValue(s, i) ==
  IF Char(s, i) = "{"
  THEN LET j == SkipWs(s, i + 1)
       IN  IF Char(s, j) = "}"
           THEN [ok |-> TRUE, v |-> EmptyObject, end |-> j + 1]
           ELSE JsonMembers(s, j, EmptyObject)
  ELSE JsonScalar(s, i)

\* JSON.parse(text): ok is FALSE where it throws a SyntaxError.
JSONParse(text) ==
  LET r == JsonValue(text, SkipWs(text, 1))
  IN  IF r.ok /\ SkipWs(text, r.end) = Len(text) + 1
      THEN [ok |-> TRUE, v |-> r.v]
      ELSE [ok |-> FALSE, v |-> Box(Undefined)]

parseJsonLine(line) ==
  LET r == JSONParse(line)
  IN  IF r.ok THEN r.v ELSE NoMatch

(***************************************************************************)
(* detectFormat and parseLogFile                                           *)
(***************************************************************************)
\* The tests detectFormat makes on the first line, in their order.
DetectLine(firstLine) ==
  IF JSONParse(firstLine).ok THEN "json"
  ELSE IF NginxMatch(firstLine).ok THEN "nginx"
  ELSE IF ApacheMatch(firstLine).ok THEN "apache"
  ELSE "text"

\* lines[lines.length - 1]
LastLine(lines) == lines[Len(lines)]

\* const firstLine = lines[0]
FirstLine(lines) == lines[1]

\* detectFormat(content)
detectFormat(content) ==
  IF Len(NonBlankLines(content)) = 0 THEN "text"
  ELSE DetectLine(FirstLine(NonBlankLines(content)))

\* The switch of parseLogFile's map callback.
ParseLine(detectedFormat, line) ==
  CASE detectedFormat = "nginx"  -> parseNginxLine(line)
    [] detectedFormat = "apache" -> parseApacheLine(line)
    [] detectedFormat = "json"   -> parseJsonLine(line)
    [] OTHER                     -> TextEntry(line)

\* lines.map(line => ...)
RECURSIVE MapParse(_, _)
MapParse(detectedFormat, lines) ==
  IF lines = <<>> THEN <<>>
  ELSE <<ParseLine(detectedFormat, Head(lines))>>
       \o MapParse(detectedFormat, Tail(lines))

\* .filter(entry => entry !== null)
RECURSIVE FilterNotNull(_)
FilterNotNull(entries) ==
  IF entries = <<>> THEN <<>>
  ELSE IF Head(entries).t # "null"
       THEN <<Head(entries)>> \o FilterNotNull(Tail(entries))
       ELSE FilterNotNull(Tail(entries))

\* The object parseLogFile returns.
ParsedLog(detectedFormat, entries, lines) ==
  [format |-> detectedFormat, entries |-> entries,
   totalLines |-> Len(lines), parsedEntries |-> Len(entries)]

\* The body of parseLogFile once the format and the lines are known.
ParseLines(detectedFormat, lines) ==
  ParsedLog(detectedFormat, FilterNotNull(MapParse(detectedFormat, lines)), lines)

\* parseLogFile on a file whose content (fs.readFileSync) is `content`.
parseLogFile(content, format) ==
  ParseLines(IF format = "auto" THEN detectFormat(content) ELSE format,
             NonBlankLines(content))

(***************************************************************************)
(* filterByStatus and aggregateByField                                     *)
(***************************************************************************)
\* statusCodes.includes(v) for an array of integers.
Includes(statusCodes, v) ==
  \E i \in 1..Len(statusCodes) : Num(statusCodes[i]) = v

\* entry => entry.status, whatever the status codes asked for
HasTruthyStatus(entry, statusCodes) == Truthy(Get(entry, "status"))

\* entry => entry.status && statusCodes.includes(entry.status)
StatusMatches(entry, statusCodes) ==
  /\ Truthy(Get(entry, "status"))
  /\ Includes(statusCodes, Get(entry, "status"))

\* entries.filter(entry => ...)
RECURSIVE filterByStatus(_, _)
filterByStatus(entries, statusCodes) ==
  IF entries = <<>> THEN <<>>
  ELSE IF StatusMatches(Head(entries), statusCodes)
       THEN <<Head(entries)>> \o filterByStatus(Tail(entries), statusCodes)
       ELSE filterByStatus(Tail(entries), statusCodes)

\* The bucket of one entry:  entry[field] || 'unknown',  as a property key.
BucketKey(entry, field) ==
  LET value == Get(entry, field)
  IN  JSToString(IF Truthy(value) THEN value ELSE Str("unknown"))

\* v + 1: numeric addition, or string concatenation when v is not a number.
PlusOne(v) ==
  IF v.t \in {"number", "boolean"} THEN Num(v.n + 1)
  ELSE Str(JSToString(v) \o "1")

\* counts[key] = (counts[key] || 0) + 1
Increment(counts, key) ==
  LET cur == Get(counts, key)
  IN  Set(counts, key, PlusOne(IF Truthy(cur) THEN cur ELSE Num(0)))

Front(q) == SubSeq(q, 1, Len(q) - 1)
Last(q)  == q[Len(q)]

\* const counts = {}; entries.forEach(entry => ...); return counts
RECURSIVE aggregateByField(_, _)
aggregateByField(entries, field) ==
  IF entries = <<>> THEN EmptyObject
  ELSE Increment(aggregateByField(Front(entries), field),
                 BucketKey(Last(entries), field))

(***************************************************************************)
(* Property order, Object.keys / Object.entries and Array.prototype.sort   *)
(***************************************************************************)
\* a < b for two strings of decimal digits of the same length.
RECURSIVE LexLess(_, _, _)
LexLess(a, b, i) ==
  IF i > Len(a) THEN FALSE
  ELSE IF Char(a, i) # Char(b, i) THEN DigitVal(Char(a, i)) < DigitVal(Char(b, i))
  ELSE LexLess(a, b, i + 1)

\* A property key that is an array index: the canonical decimal form of an
\* integer from 0 to 2^32 - 2.
IsArrayIndex(k) ==
  /\ Len(k) >= 1
  /\ RunEnd("d", k, 1) = Len(k) + 1
  /\ (Len(k) = 1 \/ Char(k, 1) # "0")
  /\ \/ Len(k) < Len("4294967294")
     \/ Len(k) = Len("4294967294") /\ ~LexLess("4294967294", k, 1)

\* Numeric order of two array indices in canonical form.
IndexLess(a, b) == Len(a) < Len(b) \/ (Len(a) = Len(b) /\ LexLess(a, b, 1))

\* OrdinaryOwnPropertyKeys: array indices in ascending numeric order, then
\* the other string keys in the order the properties were created.  Rank(i)
\* is the place of the i-th created property in that order.
OwnPropertyKeys(o) ==
  LET n == Len(o.keys)
      indices == {i \in 1..n : IsArrayIndex(o.keys[i])}
      Rank(i) ==
        IF i \in indices
        THEN 1 + Cardinality({j \in indices : IndexLess(o.keys[j], o.keys[i])})
        ELSE 1 + Cardinality(indices)
               + Cardinality({j \in (1..n) \ indices : j < i})
  IN  [r \in 1..n |-> o.keys[CHOOSE i \in 1..n : Rank(i) = r]]

\* Object.keys(v): of a string primitive, its character indices.
ObjectKeys(o) ==
  IF o.t = "string" THEN [i \in 1..Len(o.s) |-> NumToString(i - 1)]
  ELSE OwnPropertyKeys(o)

\* Object.entries(o) of a plain object, as pairs [key, count].
ObjectEntries(o) ==
  LET ks == OwnPropertyKeys(o)
  IN  [i \in 1..Len(ks) |-> [key |-> ks[i], count |-> Get(o, ks[i])]]

\* A stable sort with the comparator (a, b) => b[1] - a[1] on numeric counts:
\* before pair i come the pairs with a greater count and the earlier pairs
\* with the same count.
StableSortByCount(pairs) ==
  LET n == Len(pairs)
      Rank(i) ==
        1 + Cardinality({j \in 1..n :
                           \/ pairs[j].count.n > pairs[i].count.n
                           \/ pairs[j].count.n = pairs[i].count.n /\ j < i})
  IN  [r \in 1..n |-> pairs[CHOOSE i \in 1..n : Rank(i) = r]]

Orderings(q) ==
  LET n == Len(q)
  IN  { [i \in 1..n |-> q[f[i]]] :
          f \in {g \in [1..n -> 1..n] : \A i, j \in 1..n : g[i] = g[j] => i = j} }

\* The results pairs.sort((a, b) => b[1] - a[1]) can give.  With numeric
\* counts the sort is stable.  A count that is not a number makes the
\* difference NaN, which sort reads as 0: that comparator is consistent only
\* if the numeric counts are all equal (then nothing moves); otherwise the
\* order is implementation-defined.
SortOutcomes(pairs) ==
  LET numeric == {i \in 1..Len(pairs) : pairs[i].count.t = "number"}
  IN  IF numeric = 1..Len(pairs) THEN {StableSortByCount(pairs)}
      ELSE IF \A i, j \in numeric : pairs[i].count.n = pairs[j].count.n
      THEN {pairs}
      ELSE Orderings(pairs)

\* array.slice(0, n)
Slice0(q, n) == SubSeq(q, 1, IF Len(q) < n THEN Len(q) ELSE n)

(***************************************************************************)
(* filterEntries                                                           *)
(*                                                                         *)
(* new RegExp(pattern, 'i') is modelled for the patterns made of literal   *)
(* characters with an optional ^ in front and an optional $ at the end.    *)
(***************************************************************************)
LowerCase == "abcdefghijklmnopqrstuvwxyz"
UpperCase == "ABCDEFGHIJKLMNOPQRSTUVWXYZ"

\* Canonicalize of the ignoreCase flag: the upper-case form of a character.
Canonicalize(c) ==
  IF \E k \in 1..Len(LowerCase) : Char(LowerCase, k) = c
  THEN Char(UpperCase, CHOOSE k \in 1..Len(LowerCase) : Char(LowerCase, k) = c)
  ELSE c

\* The literal text of the pattern, without its anchors.
PatternBody(pattern) ==
  SubSeq(pattern,
         IF StartsWith(pattern, 1, "^") THEN 2 ELSE 1,
         IF Len(pattern) > 0 /\ Char(pattern, Len(pattern)) = "$"
         THEN Len(pattern) - 1 ELSE Len(pattern))

\* The literal text occurs in s at index i, the case of letters ignored.
OccursAt(body, s, i) ==
  /\ i + Len(body) - 1 <= Len(s)
  /\ \A k \in 1..Len(body) :
       Canonicalize(Char(s, i + k - 1)) = Canonicalize(Char(body, k))

\* The literal text occurs in s: at index 1 if fromStart, up to the end of s
\* if toEnd.
Search(body, fromStart, toEnd, s) ==
  \E i \in (IF fromStart THEN {1} ELSE 1..(Len(s) + 1)) :
    /\ OccursAt(body, s, i)
    /\ toEnd => i + Len(body) - 1 = Len(s)

\* regex.test(s) for regex = new RegExp(pattern, 'i')
RegExpTest(pattern, s) ==
  Search(PatternBody(pattern), StartsWith(pattern, 1, "^"),
         Len(pattern) > 0 /\ Char(pattern, Len(pattern)) = "$", s)

\* One character of a string inside the quotes JSON.stringify writes.
QuoteChar(c) ==
  CASE c = "\"" -> "\\\""
    [] c = "\\" -> "\\\\"
    [] c = "\n" -> "\\n"
    [] c = "\r" -> "\\r"
    [] c = "\t" -> "\\t"
    [] OTHER    -> c

\* The characters of s, each escaped (QuoteJSONString without the quotes).
RECURSIVE QuoteChars(_)
QuoteChars(s) ==
  IF Len(s) = 0 THEN ""
  ELSE IF Len(s) = 1 THEN QuoteChar(Char(s, 1))
  ELSE QuoteChars(SubSeq(s, 1, Len(s) \div 2))
       \o QuoteChars(SubSeq(s, Len(s) \div 2 + 1, Len(s)))

\* JSON.stringify of a primitive value.
StringifyValue(v) ==
  CASE v.t = "string"  -> "\"" \o QuoteChars(v.s) \o "\""
    [] v.t = "number"  -> NumToString(v.n)
    [] v.t = "boolean" -> IF v.n = 1 THEN "true" ELSE "false"
    [] OTHER           -> "null"

\* The members written so far with the member "k":value added after a
\* comma; a member whose value is undefined or a function is left out.
AppendMember(members, o, k) ==
  IF Get(o, k).t \in {"undefined", "function"} THEN members
  ELSE (IF members = "" THEN "" ELSE members \o ",")
       \o "\"" \o QuoteChars(k) \o "\":" \o StringifyValue(Get(o, k))

\* The members of an object for the given keys.
RECURSIVE StringifyMembers(_, _)
StringifyMembers(o, ks) ==
  IF ks = <<>> THEN ""
  ELSE AppendMember(StringifyMembers(o, Front(ks)), o, Last(ks))

\* String(JSON.stringify(entry)): what regex.test is given.
JSONStringify(entry) ==
  CASE entry.t = "object" ->
         "{" \o StringifyMembers(entry, OwnPropertyKeys(entry)) \o "}"
    [] entry.t \in {"undefined", "function"} -> "undefined"
    [] OTHER -> StringifyValue(Prim(entry))

\* The callback of filterEntries:  entry => { if (field) ... }
EntryMatches(entry, pattern, field) ==
  IF Truthy(field)
  THEN /\ Get(entry, field.s).t \notin {"undefined", "null"}
       /\ RegExpTest(pattern, JSToString(Get(entry, field.s)))
  ELSE RegExpTest(pattern, JSONStringify(entry))

\* entries.filter(entry => ...)
RECURSIVE filterEntries(_, _, _)
filterEntries(entries, pattern, field) ==
  IF entries = <<>> THEN <<>>
  ELSE filterEntries(Front(entries), pattern, field)
       \o (IF EntryMatches(Last(entries), pattern, field)
           THEN <<Last(entries)>> ELSE <<>>)

(***************************************************************************)
(* calculateTimeStats                                                      *)
(***************************************************************************)
TwoDigits(s, i) == parseInt(SubSeq(s, i, i + 1))

\* new Date(v) for a timestamp value, read in a process whose local time
\* zone is UTC.  A number is a time value in milliseconds.  Of the texts the
\* inputs carry, the ISO form YYYY-MM-DDTHH:MM:SSZ is a date; a bare word
\* and nginx's dd/Mon/yyyy:hh:mm:ss zone are Invalid Date.
NewDate(v) ==
  LET s == v.s
      digitsAt == {1, 2, 3, 4, 6, 7, 9, 10, 12, 13, 15, 16, 18, 19}
      iso == /\ Len(s) = Len("YYYY-MM-DDTHH:MM:SSZ")
             /\ \A i \in digitsAt : Char(s, i) \in Digits
             /\ Char(s, 5) = "-" /\ Char(s, 8) = "-" /\ Char(s, 11) = "T"
             /\ Char(s, 14) = ":" /\ Char(s, 17) = ":" /\ Char(s, 20) = "Z"
             /\ TwoDigits(s, 6) \in 1..12 /\ TwoDigits(s, 9) \in 1..31
             /\ TwoDigits(s, 12) <= 23 /\ TwoDigits(s, 15) <= 59
             /\ TwoDigits(s, 18) <= 59
  IN  IF v.t \in {"number", "boolean"} /\ v.n >= 0
      THEN [valid |-> TRUE, hours |-> (v.n \div 3600000) % 24,
            minutes |-> (v.n \div 60000) % 60]
      ELSE IF v.t = "string" /\ iso
      THEN [valid |-> TRUE, hours |-> TwoDigits(s, 12), minutes |-> TwoDigits(s, 15)]
      ELSE [valid |-> FALSE, hours |-> 0, minutes |-> 0]

\* String(n).padStart(2, '0')
PadStart2(n) == IF n < 10 THEN "0" \o NumToString(n) ELSE NumToString(n)

\* The forEach callback of calculateTimeStats on one entry.
AddTime(timeBuckets, entry) ==
  IF Truthy(Get(entry, "timestamp")) /\ NewDate(Get(entry, "timestamp")).valid
  THEN [hour   |-> Increment(timeBuckets.hour,
                             NumToString(NewDate(Get(entry, "timestamp")).hours)),
        minute |-> Increment(timeBuckets.minute,
                             NumToString(NewDate(Get(entry, "timestamp")).hours)
                             \o ":"
                             \o PadStart2(NewDate(Get(entry, "timestamp")).minutes))]
  ELSE timeBuckets

RECURSIVE calculateTimeStats(_)
calculateTimeStats(entries) ==
  IF entries = <<>> THEN [hour |-> EmptyObject, minute |-> EmptyObject]
  ELSE AddTime(calculateTimeStats(Front(entries)), Last(entries))

(***************************************************************************)
(* generateSummary                                                         *)
(***************************************************************************)
ErrorStatusCodes  == <<400, 401, 403, 404, 500, 502, 503, 504>>
\* The client codes with a server code among them.
ClientOrInternalErrorCodes == <<400, 401, 403, 404, 500>>
ClientStatusCodes == <<400, 401, 403, 404>>
ServerStatusCodes == <<500, 502, 503, 504>>

\* slice(0, 10) of the sorted paths
TopPathsLimit == 10

\* x.toFixed(1) for x = (num / den) * 100.
ToFixed1(num, den) ==
  LET n == (num * 1000 * 2 + den) \div (2 * den)
  IN  NumToString(n \div 10) \o "." \o NumToString(n % 10)

\* x.toFixed(2) for x = (num / den) * 100: the multiple of 0.01 nearest to x.
\* Below 32 entries x is never half-way between two of them, so the
\* floating-point error of the division cannot change the digits.
ToFixed2(num, den) ==
  LET n == (num * 10000 * 2 + den) \div (2 * den)
  IN  NumToString(n \div 100) \o "." \o PadStart2(n % 100)

\* Array.from(fields) after every key of every entry was added to the Set
\* `fields`: the distinct keys in the order of their first occurrence.
\* Occurrence <<e, k>> is the k-th key of the e-th entry.
FieldsOf(entries) ==
  LET KeyAt(p) == ObjectKeys(entries[p[1]])[p[2]]
      Earlier(p, q) == p[1] < q[1] \/ (p[1] = q[1] /\ p[2] < q[2])
      occurrences == UNION { { <<e, k>> : k \in 1..Len(ObjectKeys(entries[e])) } :
                             e \in 1..Len(entries) }
      first == {p \in occurrences :
                  \A q \in occurrences : KeyAt(q) = KeyAt(p) => ~Earlier(q, p)}
      Rank(p) == 1 + Cardinality({q \in first : Earlier(q, p)})
  IN  [r \in 1..Cardinality(first) |-> KeyAt(CHOOSE p \in first : Rank(p) = r)]

\* Every format takes the branches of the HTTP access logs.
IsAnyFormat(format) == TRUE

\* format === 'nginx' || format === 'apache'
IsHttpFormat(format) == format = "nginx" \/ format = "apache"

\* The summaries generateSummary({entries, format}) can return: one, unless
\* the order of the sort of the path counts is implementation-defined.
generateSummary(entries, format) ==
  LET summary == [format |-> format, totalEntries |-> Len(entries),
                  fieldsDetected |-> <<>>]
      errorEntries == filterByStatus(entries, ErrorStatusCodes)
      statusPart ==
        [statusCounts |-> aggregateByField(entries, "status"),
         errorCount   |-> Len(errorEntries),
         errorRate    |-> ToFixed2(Len(errorEntries), Len(entries)) \o "%",
         clientErrors |-> Len(filterByStatus(entries, ClientStatusCodes)),
         serverErrors |-> Len(filterByStatus(entries, ServerStatusCodes))]
      pathCounts == aggregateByField(entries, "path")
      detected == [summary EXCEPT !.fieldsDetected = FieldsOf(entries)]
      timePart == [timeStats |-> calculateTimeStats(entries)]
  IN  IF Len(entries) = 0 THEN {summary}
      ELSE IF IsHttpFormat(format)
      THEN { detected @@ statusPart
               @@ [topPaths |-> Slice0(sortedPaths, TopPathsLimit)] @@ timePart :
             sortedPaths \in SortOutcomes(ObjectEntries(pathCounts)) }
      ELSE { detected @@ timePart }

(***************************************************************************)
(* Inputs                                                                  *)
(***************************************************************************)
MaxLines == 3
MaxDetectLines == 2

\* An nginx record with a path of digits and size 0.
DigitPathLine == "a - - [t] \"G 7 H\" 404 0 \"r\" \"u\""

\* Lines of each kind the parsers tell apart: two nginx records (status 000;
\* a path of digits and size 0), an Apache record whose path names a
\* property of Object.prototype, a JSON object, the JSON value null, free
\* text, and a line of white space.
Lines ==
  { "a - - [t] \"G /a H\" 000 5 \"\" \"u\"",
    DigitPathLine,
    "a - - [t] \"G toString H\" 500 2",
    "{\"status\":404,\"level\":\"\",\"timestamp\":\"2026-02-19T10:05:00Z\"}",
    "null",
    "x]",
    " \t" }

\* The nginx log of the test suite, its fields shortened: five requests
\* with statuses 200, 200, 404, 500, 403, the first and the last for the
\* same path.
nginxLog ==
  "1 - - [t] \"GET /users H\" 200 1234 \"-\" \"M\"\n"
  \o "2 - - [t] \"GET /posts H\" 200 567 \"e\" \"M\"\n"
  \o "3 - - [t] \"GET /none H\" 404 89 \"-\" \"c\"\n"
  \o "1 - - [t] \"POST /login H\" 500 234 \"-\" \"M\"\n"
  \o "4 - - [t] \"GET /users H\" 403 45 \"-\" \"c\""

\* lines.join('\n')
RECURSIVE Join(_)
Join(ls) ==
  IF ls = <<>> THEN ""
  ELSE IF Len(ls) = 1 THEN ls[1]
  ELSE ls[1] \o "\n" \o Join(Tail(ls))

ContentsOf(ls, n) == { Join(q) : q \in UNION { [1..k -> ls] : k \in 0..n } }

\* The files given to parseLogFile.
Contents == ContentsOf(Lines, MaxLines) \cup {nginxLog}

\* The files given to detectFormat: one nginx record is enough to tell the
\* formats apart.
DetectContents == ContentsOf(Lines \ {DigitPathLine}, MaxDetectLines)

Formats == {"json", "nginx", "apache", "text"}

\* The --format option of the command line.
FormatSelectors == {"auto"} \cup Formats

\* The pattern and the field given to filterEntries: a literal looked for in
\* the whole entry (field omitted) and in one field, an anchored pattern that
\* only the empty string matches, and a word of the text of a built-in
\* function with the name of that function as the field.
FilterArguments ==
  { <<"g", Null>>, <<"g", Str("method")>>, <<"^$", Str("level")>>,
    <<"native", Str("toString")>> }

\* Arrays of status codes given to filterByStatus.
StatusCodeArrays == { <<404, 500>>, <<0>>, <<200, 404>>, <<>> }

\* Field names given to aggregateByField.
Fields == {"status", "size", "path", "level", "raw"}

(***************************************************************************)
(* State                                                                   *)
(***************************************************************************)
VARIABLES
  content,        \* the text of the log file
  format,         \* the format selector passed to parseLogFile
  pc,             \* which operation has run
  pattern,        \* the pattern argument of filterEntries
  filterField,    \* the field argument of filterEntries
  matched,        \* the result of filterEntries(parsed.entries, pattern, filterField)
  parsed,         \* the ParsedLog returned by parseLogFile
  statusCodes,    \* the argument of filterByStatus
  filtered,       \* the result of filterByStatus(parsed.entries, statusCodes)
  field,          \* the argument of aggregateByField
  aggregated,     \* the result of aggregateByField(parsed.entries, field)
  summary,        \* the result of generateSummary(parsed)
  other,          \* a second file content given to detectFormat
  detected,       \* detectFormat(content)
  detectedOther   \* detectFormat(other)

vars == << content, format, pc, pattern, filterField, matched, parsed, statusCodes, filtered, field,
           aggregated, summary, other, detected, detectedOther >>

None == "none"

Idle ==
  /\ pc = "start"
  /\ parsed = None /\ statusCodes = None /\ filtered = None /\ field = None
  /\ aggregated = None /\ summary = None
  /\ pattern = None /\ filterField = None /\ matched = None
  /\ detected = None /\ detectedOther = None

Init ==
  /\ content \in Contents
  /\ format \in FormatSelectors
  /\ other = None
  /\ Idle

ParseLogFile ==
  /\ pc = "start"
  /\ parsed' = parseLogFile(content, format)
  /\ pc' = "parsed"
  /\ UNCHANGED << pattern, filterField, matched, content, format, statusCodes, filtered, field, aggregated,
                  summary, other, detected, detectedOther >>

FilterEntries(p, f) ==
  /\ pc = "parsed"
  /\ pattern' = p
  /\ filterField' = f
  /\ matched' = filterEntries(parsed.entries, p, f)
  /\ pc' = "matched"
  /\ UNCHANGED << content, format, parsed, statusCodes, filtered, field,
                  aggregated, summary, other, detected, detectedOther >>

FilterByStatus(codes) ==
  /\ pc = "parsed"
  /\ statusCodes' = codes
  /\ filtered' = filterByStatus(parsed.entries, codes)
  /\ pc' = "filtered"
  /\ UNCHANGED << pattern, filterField, matched, content, format, parsed, field, aggregated, summary, other,
                  detected, detectedOther >>

AggregateByField(f) ==
  /\ pc = "parsed"
  /\ field' = f
  /\ aggregated' = aggregateByField(parsed.entries, f)
  /\ pc' = "aggregated"
  /\ UNCHANGED << pattern, filterField, matched, content, format, parsed, statusCodes, filtered, summary,
                  other, detected, detectedOther >>

GenerateSummary ==
  /\ pc = "parsed"
  /\ summary' \in generateSummary(parsed.entries, parsed.format)
  /\ pc' = "summarised"
  /\ UNCHANGED << pattern, filterField, matched, content, format, parsed, statusCodes, filtered, field,
                  aggregated, other, detected, detectedOther >>

Next ==
  \/ ParseLogFile
  \/ \E a \in FilterArguments : FilterEntries(a[1], a[2])
  \/ \E codes \in StatusCodeArrays : FilterByStatus(codes)
  \/ \E f \in Fields : AggregateByField(f)
  \/ GenerateSummary

Spec == Init /\ [][Next]_vars

\* detectFormat applied to two file contents.
InitDetect ==
  /\ content \in DetectContents
  /\ other \in DetectContents
  /\ format = "auto"
  /\ Idle

DetectFormat ==
  /\ pc = "start"
  /\ other # None
  /\ detected' = detectFormat(content)
  /\ detectedOther' = detectFormat(other)
  /\ pc' = "detected"
  /\ UNCHANGED << pattern, filterField, matched, content, format, parsed, statusCodes, filtered, field,
                  aggregated, summary, other >>

NextDetect == DetectFormat

SpecDetect == InitDetect /\ [][NextDetect]_vars

(***************************************************************************)
(* Properties of parseLogFile                                              *)
(***************************************************************************)
\* The number of lines of a text that hold a character other than white
\* space.
NonBlankCount(text) ==
  LET ls == Split(text)
  IN  Cardinality({ i \in 1..Len(ls) : TrimTruthy(ls[i]) })

\* C1: for every file content and every format selector, the result of
\* parseLogFile has totalLines equal to the number of non-blank lines of the
\* content, parsedEntries equal to the length of entries, and
\* parsedEntries <= totalLines.
C1_LineCounts ==
  pc = "parsed" =>
    /\ parsed.totalLines = NonBlankCount(content)
    /\ parsed.parsedEntries = Len(parsed.entries)
    /\ parsed.parsedEntries <= parsed.totalLines

\* A file with a blank line, a line that parsed and a line that did not.
C1_Witness ==
  /\ pc = "parsed"
  /\ 0 < parsed.parsedEntries
  /\ parsed.parsedEntries < parsed.totalLines
  /\ parsed.totalLines < Len(Split(content))

\* The line belongs to the language of the format: a complete JSON value,
\* the nginx pattern, the Apache pattern; every line is text.
MatchesGrammar(fmt, line) ==
  CASE fmt = "json"   -> JSONParse(line).ok
    [] fmt = "nginx"  -> NginxMatch(line).ok
    [] fmt = "apache" -> ApacheMatch(line).ok
    [] OTHER          -> TRUE

\* The records of the lines that match the grammar, in the order of the lines.
RECURSIVE RecordsOfMatching(_, _)
RecordsOfMatching(fmt, lines) ==
  IF lines = <<>> THEN <<>>
  ELSE RecordsOfMatching(fmt, Front(lines))
       \o (IF MatchesGrammar(fmt, Last(lines))
           THEN <<ParseLine(fmt, Last(lines))>> ELSE <<>>)

\* C2: parseLogFile drops exactly the lines that do not match the grammar of
\* the chosen format: entries is the sequence of the records of the lines
\* that match, in the order of those lines.
C2_OnlyUnmatchedDropped ==
  pc = "parsed" =>
    parsed.entries = RecordsOfMatching(parsed.format, NonBlankLines(content))

(***************************************************************************)
(* Properties of detectFormat                                              *)
(***************************************************************************)
\* The first line of a text that holds a character other than white space,
\* as a sequence of one line; the empty sequence when there is none.
FirstNonBlankLine(text) ==
  LET ls == Split(text)
      nonBlank == { i \in 1..Len(ls) : TrimTruthy(ls[i]) }
  IN  IF nonBlank = {} THEN <<>>
      ELSE << ls[CHOOSE i \in nonBlank : \A j \in nonBlank : i <= j] >>

\* C3: detectFormat always returns one of json, nginx, apache, text; it
\* returns text when the content has no non-blank line; and two contents
\* with the same first non-blank line get the same format, whatever their
\* other lines are.
C3_FirstLineDecides ==
  pc = "detected" =>
    /\ detected \in Formats
    /\ detectedOther \in Formats
    /\ FirstNonBlankLine(content) = <<>> => detected = "text"
    /\ FirstNonBlankLine(content) = FirstNonBlankLine(other)
         => detected = detectedOther

\* Two contents whose first non-blank line is the same nginx record: one
\* starts with a blank line, the other goes on with a line of another kind.
C3_Witness ==
  /\ pc = "detected"
  /\ FirstNonBlankLine(content) # <<>>
  /\ FirstNonBlankLine(content) = FirstNonBlankLine(other)
  /\ ~TrimTruthy(Split(content)[1])
  /\ NonBlankCount(other) > 1
  /\ ~NginxMatch(LastLine(NonBlankLines(other))).ok
  /\ detected = "nginx"

(***************************************************************************)
(* Properties of filterByStatus                                            *)
(***************************************************************************)
\* The elements of q at the indices in S, in the order of q.
Pick(q, S) ==
  [r \in 1..Cardinality(S) |->
     q[CHOOSE i \in S : Cardinality({j \in S : j <= i}) = r]]

\* sub keeps some elements of q, each at most once, in the order of q.
IsSubsequence(sub, q) == \E S \in SUBSET (1..Len(q)) : sub = Pick(q, S)

\* The entry has a status field whose value is one of the codes.
StatusInCodes(entry, codes) ==
  /\ Get(entry, "status").t = "number"
  /\ \E k \in 1..Len(codes) : codes[k] = Get(entry, "status").n

\* C4: the result of filterByStatus is a subsequence of entries, and every
\* entry of the result has a status that is one of the given codes.
C4_FilteredSubsequence ==
  pc = "filtered" =>
    /\ IsSubsequence(filtered, parsed.entries)
    /\ \A i \in 1..Len(filtered) : StatusInCodes(filtered[i], statusCodes)

\* A filter that keeps at least two entries and drops at least one.
C4_Witness ==
  /\ pc = "filtered"
  /\ Len(filtered) >= 2
  /\ Len(filtered) < Len(parsed.entries)

\* C5: filterByStatus is complete: its result is the sequence of all the
\* entries that have a status field whose value is one of the given codes,
\* for every integer status, 0 included.
C5_FilterComplete ==
  pc = "filtered" =>
    filtered = SelectSeq(parsed.entries,
                         LAMBDA entry : StatusInCodes(entry, statusCodes))

(***************************************************************************)
(* Properties of aggregateByField                                          *)
(***************************************************************************)
RECURSIVE SumOf(_)
SumOf(counts) ==
  IF counts = <<>> THEN 0 ELSE SumOf(Front(counts)) + Last(counts).n

\* C6: the counts of the mapping aggregateByField returns are numbers that
\* sum to entries.length.
C6_CountsSum ==
  pc = "aggregated" =>
    /\ \A i \in 1..Len(aggregated.vals) : aggregated.vals[i].t = "number"
    /\ SumOf(aggregated.vals) = Len(parsed.entries)

\* The bucket the entry belongs to: the string form of the value of the
\* field, "unknown" when the entry has no such field.
ExpectedBucket(entry, f) ==
  IF Get(entry, f).t = "undefined" THEN "unknown"
  ELSE JSToString(Get(entry, f))

\* C7: aggregateByField counts each entry under the string form of the value
\* of the field, and under "unknown" when the field is missing: the keys of
\* the mapping are the buckets of the entries, for every value, the integer 0
\* and the empty string included.
C7_BucketOfValue ==
  pc = "aggregated" =>
    /\ \A i \in 1..Len(parsed.entries) :
         HasOwn(aggregated, ExpectedBucket(parsed.entries[i], field))
    /\ \A k \in 1..Len(aggregated.keys) :
         \E i \in 1..Len(parsed.entries) :
           aggregated.keys[k] = ExpectedBucket(parsed.entries[i], field)

(***************************************************************************)
(* Properties of generateSummary                                           *)
(***************************************************************************)
StatusesOf(entries) ==
  [i \in 1..Len(entries) |-> Get(entries[i], "status").n]

\* Scenario A: the summary of an nginx log of five parsed lines with the
\* statuses 200, 200, 404, 500, 403.
ScenarioA ==
  /\ pc = "summarised"
  /\ parsed.format = "nginx"
  /\ StatusesOf(parsed.entries) = <<200, 200, 404, 500, 403>>

ScenarioACounts ==
  /\ { summary.statusCounts.keys[k] : k \in 1..Len(summary.statusCounts.keys) }
       = {"200", "404", "500", "403"}
  /\ Get(summary.statusCounts, "200") = Num(2)
  /\ Get(summary.statusCounts, "404") = Num(1)
  /\ Get(summary.statusCounts, "500") = Num(1)
  /\ Get(summary.statusCounts, "403") = Num(1)
  /\ summary.clientErrors = 2
  /\ summary.serverErrors = 1

\* C8, as the code has it: in Scenario A statusCounts is {200:2, 404:1, 500:1,
\* 403:1}, clientErrors is 2, serverErrors is 1, errorCount is 3 (the statuses
\* 404, 500 and 403) and errorRate is 3 / 5 x 100 with two decimals, "60.00%".
C8_ScenarioA ==
  ScenarioA =>
    /\ ScenarioACounts
    /\ summary.errorCount = 3
    /\ summary.errorRate = "60.00%"

\* The summary of the five lines of Scenario A.
C8_Witness == ScenarioA /\ summary.totalEntries = 5 /\ content = nginxLog

\* C8, as stated: in Scenario A statusCounts is {200:2, 404:1, 500:1, 403:1},
\* clientErrors is 2, serverErrors is 1 and errorRate is "80.00%".
C8_Original ==
  ScenarioA => ScenarioACounts /\ summary.errorRate = "80.00%"

PathOf(entry) == JSToString(Get(entry, "path"))

\* The distinct paths of the entries, sorted by descending number of
\* occurrences, paths with the same number in the order in which they first
\* occur, the first TopPathsLimit of them.
ExpectedTopPaths(entries) ==
  LET n == Len(entries)
      first == { i \in 1..n :
                   \A j \in 1..(i - 1) : PathOf(entries[j]) # PathOf(entries[i]) }
      Count(i) ==
        Cardinality({ j \in 1..n : PathOf(entries[j]) = PathOf(entries[i]) })
      Rank(i) ==
        1 + Cardinality({ j \in first : \/ Count(j) > Count(i)
                                        \/ Count(j) = Count(i) /\ j < i })
      m == IF Cardinality(first) > TopPathsLimit THEN TopPathsLimit
           ELSE Cardinality(first)
  IN  [r \in 1..m |-> PathOf(entries[CHOOSE i \in first : Rank(i) = r])]

\* C9: for nginx and apache summaries topPaths holds the pairs of
\* aggregateByField(entries, 'path'), at most 10, sorted by descending count,
\* paths of equal count in the order in which they were first met in entries,
\* for every path, a path made only of digits included.
C9_TopPathsOrder ==
  (pc = "summarised" /\ IsHttpFormat(parsed.format) /\ parsed.entries # <<>>) =>
    /\ [r \in 1..Len(summary.topPaths) |-> summary.topPaths[r].key]
         = ExpectedTopPaths(parsed.entries)
    /\ \A r \in 1..Len(summary.topPaths) :
         summary.topPaths[r].count
           = Get(aggregateByField(parsed.entries, "path"), summary.topPaths[r].key)

BaseKeys == {"format", "totalEntries", "fieldsDetected"}

HttpKeys == {"statusCounts", "errorCount", "errorRate", "clientErrors",
             "serverErrors", "topPaths"}

\* C10: the keys of the summary are fixed by the format and by whether
\* entries is empty: with no entries the summary is exactly {format,
\* totalEntries: 0, fieldsDetected: []}; otherwise timeStats is present, and
\* statusCounts, errorCount, errorRate, clientErrors, serverErrors and
\* topPaths are present if and only if the format is nginx or apache.
C10_SummaryKeys ==
  pc = "summarised" =>
    IF parsed.entries = <<>>
    THEN summary = [format |-> parsed.format, totalEntries |-> 0,
                    fieldsDetected |-> <<>>]
    ELSE DOMAIN summary =
           BaseKeys \cup {"timeStats"}
             \cup (IF parsed.format \in {"nginx", "apache"} THEN HttpKeys ELSE {})

\* The summary of a JSON log with entries: timeStats and no HTTP key.
C10_Witness ==
  /\ pc = "summarised"
  /\ parsed.format = "json"
  /\ parsed.entries # <<>>
  /\ "timeStats" \in DOMAIN summary
  /\ DOMAIN summary \cap HttpKeys = {}

(***************************************************************************)
(* Properties of filterEntries                                             *)
(***************************************************************************)
\* The entry has the field f, its value is not null, and the string form of
\* the value matches the pattern, the case of letters ignored.
FieldMatches(entry, p, f) ==
  /\ HasOwn(entry, f)
  /\ Get(entry, f).t \notin {"undefined", "null"}
  /\ RegExpTest(p, JSToString(Get(entry, f)))

\* C11: with a field given, filterEntries returns exactly the entries whose
\* value for that field is present, not null, and matches the pattern
\* case-insensitively; an entry without the field is excluded; the result is
\* a subsequence of entries in their order, and the entries are unchanged.
C11_FilterByField ==
  (pc = "matched" /\ Truthy(filterField)) =>
    /\ matched = SelectSeq(parsed.entries,
                           LAMBDA entry : FieldMatches(entry, pattern, filterField.s))
    /\ IsSubsequence(matched, parsed.entries)
    /\ parsed = parseLogFile(content, format)

(***************************************************************************)
(* Properties of the JSON format and of the totals of the summary          *)
(***************************************************************************)
\* The non-blank lines of a text that are complete JSON values.
ValidJsonLines(text) ==
  SelectSeq(NonBlankLines(text), LAMBDA line : JSONParse(line).ok)

\* C12: with format json every non-blank line that is a complete JSON value
\* yields one entry equal to the parsed value, the value null and scalars
\* included, and only the lines that fail to parse are dropped: parsedEntries
\* is the number of non-blank lines that are valid JSON.
C12_JsonValuesKept ==
  (pc = "parsed" /\ parsed.format = "json") =>
    /\ parsed.parsedEntries = Len(ValidJsonLines(content))
    /\ parsed.entries = [i \in 1..Len(ValidJsonLines(content)) |->
                           JSONParse(ValidJsonLines(content)[i]).v]

\* C13: in every summary of format nginx or apache with entries, errorCount
\* is clientErrors + serverErrors, errorCount is at most totalEntries, and
\* the values of statusCounts are numbers that sum to totalEntries.
C13_SummaryTotals ==
  (pc = "summarised" /\ IsHttpFormat(parsed.format) /\ parsed.entries # <<>>) =>
    /\ summary.errorCount = summary.clientErrors + summary.serverErrors
    /\ summary.errorCount <= summary.totalEntries
    /\ \A i \in 1..Len(summary.statusCounts.vals) :
         summary.statusCounts.vals[i].t = "number"
    /\ SumOf(summary.statusCounts.vals) = summary.totalEntries

\* A summary with client errors, server errors and requests without error.
C13_Witness ==
  /\ pc = "summarised"
  /\ IsHttpFormat(parsed.format)
  /\ summary.totalEntries > 0
  /\ summary.clientErrors > 0
  /\ summary.serverErrors > 0
  /\ summary.errorCount < summary.totalEntries

====
